---- MODULE Spec2Model ----
(***************************************************************************)
(* mobpdf: the markup-to-document pipeline of src/main.js.                 *)
(*                                                                         *)
(* Strings are sequences of one-character strings, so that trimming, the   *)
(* regular expressions and the escaping are computed character by          *)
(* character, as the JavaScript does.                                      *)
(***************************************************************************)
EXTENDS Integers, Sequences, FiniteSets, TLC

\* ------------------------------------------------------------------------
\* Characters and strings
\* ------------------------------------------------------------------------

LowerSeq == << "a","b","c","d","e","f","g","h","i","j","k","l","m",
               "n","o","p","q","r","s","t","u","v","w","x","y","z" >>

UpperSeq == << "A","B","C","D","E","F","G","H","I","J","K","L","M",
               "N","O","P","Q","R","S","T","U","V","W","X","Y","Z" >>

\* [a-z]
Lower == { LowerSeq[i] : i \in DOMAIN LowerSeq }

\* [A-Z]
Upper == { UpperSeq[i] : i \in DOMAIN UpperSeq }

\* \d
Digit == { "0","1","2","3","4","5","6","7","8","9" }

\* \w
WordChar == Lower \cup Upper \cup Digit \cup { "_" }

\* \s (also what String.prototype.trim removes)
Space == { " ", "\n", "\t", "\r" }

\* [.!?]
SentenceEnd == { ".", "!", "?" }

SetMin(S) == CHOOSE x \in S : \A y \in S : x <= y

SetMax(S) == CHOOSE x \in S : \A y \in S : x >= y

\* String.prototype.toLowerCase on one character
toLowerCase(c) ==
  IF c \in Upper
  THEN LowerSeq[CHOOSE i \in DOMAIN UpperSeq : UpperSeq[i] = c]
  ELSE c

\* String.prototype.trim
trim(s) ==
  LET keep == { i \in DOMAIN s : s[i] \notin Space }
  IN  IF keep = {} THEN << >> ELSE SubSeq(s, SetMin(keep), SetMax(keep))

\* String.prototype.endsWith, for one character
endsWith(s, c) == Len(s) > 0 /\ s[Len(s)] = c

\* text.match(/[.!?]$/)
endsWithPunctuation(s) == Len(s) > 0 /\ s[Len(s)] \in SentenceEnd

\* s[0] && s[0].toLowerCase() === s[0]
startsLowercase(s) == Len(s) > 0 /\ toLowerCase(s[1]) = s[1]

\* s.match(/^[A-Z]/)
startsUppercase(s) == Len(s) > 0 /\ s[1] \in Upper

\* the first position >= p of text that holds no character of class C
\* (Len(text) + 1 when the run reaches the end)
RunEnd(text, p, C) ==
  SetMin({ q \in p..(Len(text) + 1) : q = Len(text) + 1 \/ text[q] \notin C })

\* the position of the first line break of text (Len(text) + 1 when it has none)
lineBreakPos(text) ==
  SetMin({ q \in 1..(Len(text) + 1) : q = Len(text) + 1 \/ text[q] = "\n" })

\* text.split('\n')[0]
firstLineOf(text) == SubSeq(text, 1, lineBreakPos(text) - 1)

\* text.split('\n').slice(1).join('\n')
restLinesOf(text) == SubSeq(text, lineBreakPos(text) + 1, Len(text))

\* ------------------------------------------------------------------------
\* Sections
\* ------------------------------------------------------------------------

createSection(type, content, level, images) ==
  [ type |-> type, content |-> content, level |-> level, images |-> images ]

\* ------------------------------------------------------------------------
\* Pass 1: hyphenation repair
\* ------------------------------------------------------------------------

\* the least number of word characters /(\w{2,})-/ asks for before the hyphen
MinWordBeforeHyphen == 2

\* does /(\w{2,})-\s*\n?\s*([a-z])/ match text at position p ?  The greedy
\* \w{2,} takes the whole run of word characters from p; a shorter run would
\* be followed by a word character, never by the hyphen.
hyphenMatchAt(text, p) ==
  LET h == RunEnd(text, p, WordChar)
      q == RunEnd(text, h + 1, Space)
  IN  /\ h - p >= MinWordBeforeHyphen
      /\ h <= Len(text)
      /\ text[h] = "-"
      /\ q <= Len(text)
      /\ text[q] \in Lower

\* text.replace(/(\w{2,})-\s*\n?\s*([a-z])/g, '$1$2') from position p on:
\* the global replace looks for the next match at or after the end of the
\* previous one, so the lowercase letter it consumed starts no new match.
RECURSIVE replaceFrom(_, _)
replaceFrom(text, p) ==
  IF p > Len(text) THEN << >>
  ELSE IF hyphenMatchAt(text, p)
  THEN LET h == RunEnd(text, p, WordChar)
           q == RunEnd(text, h + 1, Space)
       IN  SubSeq(text, p, h - 1) \o << text[q] >> \o replaceFrom(text, q + 1)
  ELSE << text[p] >> \o replaceFrom(text, p + 1)

fixHyphenatedWords(text) == replaceFrom(text, 1)

\* currentText.endsWith('-') && nextText.length > 0 &&
\* nextText[0].toLowerCase() === nextText[0]
hyphenSplit(currentText, nextText) ==
  /\ endsWith(currentText, "-")
  /\ Len(nextText) > 0
  /\ toLowerCase(nextText[1]) = nextText[1]

\* currentText.slice(0, -1) + nextText, fixed again
hyphenJoin(currentText, nextText) ==
  fixHyphenatedWords(SubSeq(currentText, 1, Len(currentText) - 1) \o nextText)

\* the loop of mergeHyphenatedWords from index i on.  The content of the
\* current section is fixed in place before it is looked at; the next one is
\* still as the caller passed it.
RECURSIVE hyphenLoop(_, _)
hyphenLoop(S, i) ==
  IF i > Len(S) THEN << >>
  ELSE
    LET current == [ S[i] EXCEPT !.content = fixHyphenatedWords(@) ]
    IN  IF /\ current.type = "paragraph"
           /\ i + 1 <= Len(S)
           /\ S[i + 1].type = "paragraph"
           /\ hyphenSplit(trim(current.content), trim(S[i + 1].content))
        THEN << createSection("paragraph",
                              hyphenJoin(trim(current.content), trim(S[i + 1].content)),
                              0, << >>) >>
             \o hyphenLoop(S, i + 2)
        ELSE << current >> \o hyphenLoop(S, i + 1)

mergeHyphenatedWords(S) == hyphenLoop(S, 1)

\* ------------------------------------------------------------------------
\* Pass 2: iterative paragraph merge
\* ------------------------------------------------------------------------

\* the length under which a paragraph without final punctuation counts as
\* short and incomplete
ShortParagraph == 100

join(a, b) == a \o << " " >> \o b

shouldMerge(currentText, nextText) ==
  LET currentEndsWithPunctuation == endsWithPunctuation(currentText)
      nextStartsLowercase == startsLowercase(nextText)
      currentEndsWithHyphen == endsWith(currentText, "-")
      currentIsShortIncomplete ==
        Len(currentText) < ShortParagraph /\ ~currentEndsWithPunctuation
  IN  \/ (~currentEndsWithPunctuation /\ nextStartsLowercase)
      \/ currentEndsWithHyphen
      \/ (currentIsShortIncomplete /\ nextStartsLowercase)

\* the for-loop without "changed = true" after a merge
RECURSIVE paragraphScanUnflagged(_, _)
paragraphScanUnflagged(merged, i) ==
  IF i > Len(merged) THEN [ newMerged |-> << >>, changed |-> FALSE ]
  ELSE
    LET current == merged[i]
        paired == /\ current.type = "paragraph"
                  /\ i + 1 <= Len(merged)
                  /\ merged[i + 1].type = "paragraph"
    IN  IF /\ paired
           /\ trim(merged[i + 1].content) # << >>
           /\ shouldMerge(trim(current.content), trim(merged[i + 1].content))
        THEN [ newMerged |->
                 << createSection("paragraph",
                                  join(current.content, merged[i + 1].content),
                                  0, << >>) >>
                 \o paragraphScanUnflagged(merged, i + 2).newMerged,
               changed |-> FALSE ]
        ELSE [ newMerged |->
                 << current >> \o paragraphScanUnflagged(merged, i + 1).newMerged,
               changed |-> FALSE ]

\* one for-loop of mergeAdjacentParagraphs over merged, from index i on:
\* the new list, and whether a merge happened
RECURSIVE paragraphScan(_, _)
paragraphScan(merged, i) ==
  IF i > Len(merged) THEN [ newMerged |-> << >>, changed |-> FALSE ]
  ELSE
    LET current == merged[i]
        paired == /\ current.type = "paragraph"
                  /\ i + 1 <= Len(merged)
                  /\ merged[i + 1].type = "paragraph"
    IN  IF /\ paired
           /\ trim(merged[i + 1].content) # << >>
           /\ shouldMerge(trim(current.content), trim(merged[i + 1].content))
        THEN LET rest == paragraphScan(merged, i + 2)
             IN  [ newMerged |->
                     << createSection("paragraph",
                                      join(current.content, merged[i + 1].content),
                                      0, << >>) >> \o rest.newMerged,
                   changed |-> TRUE ]
        ELSE LET rest == paragraphScan(merged, i + 1)
             IN  [ newMerged |-> << current >> \o rest.newMerged,
                   changed |-> rest.changed ]

\* while (changed) { ... }
RECURSIVE mergeAdjacentParagraphs(_)
mergeAdjacentParagraphs(S) ==
  LET scan == paragraphScan(S, 1)
  IN  IF scan.changed THEN mergeAdjacentParagraphs(scan.newMerged)
      ELSE scan.newMerged

\* ------------------------------------------------------------------------
\* Pass 3: heading continuation and adjacent headings
\* ------------------------------------------------------------------------

\* a continuation line is shorter than this
ContinuationMax == 50

\* a line that starts with no capital is a continuation if shorter than this
VeryShortMax == 30

Str_of == << "o","f" >>
Str_and == << "a","n","d" >>
Str_the == << "t","h","e" >>
Str_a == << "a" >>
Str_an == << "a","n" >>
Str_in == << "i","n" >>
Str_on == << "o","n" >>
Str_at == << "a","t" >>
Str_to == << "t","o" >>
Str_for == << "f","o","r" >>
Str_with == << "w","i","t","h" >>
Str_by == << "b","y" >>

ContinuationWords ==
  { Str_of, Str_and, Str_the, Str_a, Str_an, Str_in, Str_on, Str_at,
    Str_to, Str_for, Str_with, Str_by }

\* line.match(/^(of|and|the|a|an|in|on|at|to|for|with|by)\s/i)
startsWithContinuationWord(line) ==
  \E w \in ContinuationWords :
    /\ Len(line) > Len(w)
    /\ \A k \in DOMAIN w : toLowerCase(line[k]) = w[k]
    /\ line[Len(w) + 1] \in Space

\* looksLikeContinuation without the limit on the length of the line
looksLikeContinuationUnbounded(firstLine) ==
  \/ startsWithContinuationWord(firstLine)
  \/ (~startsUppercase(firstLine) /\ Len(firstLine) < VeryShortMax)

looksLikeContinuation(firstLine) ==
  /\ Len(firstLine) < ContinuationMax
  /\ \/ startsWithContinuationWord(firstLine)
     \/ (~startsUppercase(firstLine) /\ Len(firstLine) < VeryShortMax)

\* headingWithContinuation that leaves the paragraph in place as well
headingKeepingParagraph(current, next) ==
  << createSection("heading",
                   join(current.content, trim(firstLineOf(trim(next.content)))),
                   current.level, << >>),
     next >>
  \o (IF trim(restLinesOf(trim(next.content))) # << >>
      THEN << createSection("paragraph", trim(restLinesOf(trim(next.content))), 0, << >>) >>
      ELSE << >>)

\* what the heading branch pushes for a heading and the paragraph after it
headingWithContinuation(current, next) ==
  LET nextText == trim(next.content)
      firstLine == trim(firstLineOf(nextText))
      remainingLines == trim(restLinesOf(nextText))
  IN  << createSection("heading", join(current.content, firstLine),
                       current.level, << >>) >>
      \o (IF remainingLines # << >>
          THEN << createSection("paragraph", remainingLines, 0, << >>) >>
          ELSE << >>)

\* the loop with a merged heading put back and compared with what follows it
RECURSIVE headingLoopCascading(_, _)
headingLoopCascading(S, i) ==
  IF i > Len(S) THEN << >>
  ELSE
    LET current == S[i]
        hasNext == i + 1 <= Len(S)
    IN  IF /\ current.type = "heading"
           /\ hasNext
           /\ S[i + 1].type = "paragraph"
           /\ looksLikeContinuation(trim(firstLineOf(trim(S[i + 1].content))))
           /\ ~endsWithPunctuation(trim(current.content))
        THEN headingWithContinuation(current, S[i + 1]) \o headingLoopCascading(S, i + 2)
        ELSE IF /\ current.type = "heading"
                /\ hasNext
                /\ S[i + 1].type = "heading"
                /\ current.level = S[i + 1].level
        THEN headingLoopCascading(
               [ S EXCEPT ![i + 1] = createSection("heading",
                                                   join(current.content, S[i + 1].content),
                                                   current.level, << >>) ],
               i + 1)
        ELSE << current >> \o headingLoopCascading(S, i + 1)

\* the loop of mergeAdjacentHeadings from index i on
RECURSIVE headingLoop(_, _)
headingLoop(S, i) ==
  IF i > Len(S) THEN << >>
  ELSE
    LET current == S[i]
        hasNext == i + 1 <= Len(S)
    IN  IF /\ current.type = "heading"
           /\ hasNext
           /\ S[i + 1].type = "paragraph"
           /\ looksLikeContinuation(trim(firstLineOf(trim(S[i + 1].content))))
           /\ ~endsWithPunctuation(trim(current.content))
        THEN headingWithContinuation(current, S[i + 1]) \o headingLoop(S, i + 2)
        ELSE IF /\ current.type = "heading"
                /\ hasNext
                /\ S[i + 1].type = "heading"
                /\ current.level = S[i + 1].level
        THEN << createSection("heading",
                              join(current.content, S[i + 1].content),
                              current.level, << >>) >>
             \o headingLoop(S, i + 2)
        ELSE << current >> \o headingLoop(S, i + 1)

mergeAdjacentHeadings(S) == headingLoop(S, 1)

\* ------------------------------------------------------------------------
\* The markup tree
\* ------------------------------------------------------------------------
\* A tree is the sequence of its nodes in document order (the order in which
\* the TreeWalker meets them).  A node names its parent by position, 0 being
\* the root (tempDiv).  Text nodes carry text; elements carry a tag and the
\* attributes id, style and src.  A style attribute is the sequence of its
\* declarations, each a property with a number and a word:
\*   font-size: 19pt      [prop |-> "font-size",   num |-> 19,  word |-> "pt"]
\*   font-weight: bold    [prop |-> "font-weight", num |-> 0,   word |-> "bold"]
\*   font-weight: 700     [prop |-> "font-weight", num |-> 700, word |-> "number"]
\*   top: 72pt            [prop |-> "top",         num |-> 72,  word |-> "pt"]

isText(node) == node.tag = "#text"

elementsOf(tree) == { n \in DOMAIN tree : ~isText(tree[n]) }

\* el.parentElement, its parentElement, ... up to the root (not included)
RECURSIVE ancestors(_, _)
ancestors(tree, n) ==
  IF tree[n].parent = 0 THEN {}
  ELSE { tree[n].parent } \cup ancestors(tree, tree[n].parent)

descendants(tree, el) == { n \in DOMAIN tree : el \in ancestors(tree, n) }

\* el.querySelectorAll('*')
descendantElements(tree, el) == descendants(tree, el) \cap elementsOf(tree)

textNodes(tree, el) == descendants(tree, el) \ elementsOf(tree)

\* the texts of the text nodes ids, in document order, from position n on
RECURSIVE textFrom(_, _, _)
textFrom(tree, ids, n) ==
  IF n > Len(tree) THEN << >>
  ELSE (IF n \in ids THEN tree[n].text ELSE << >>) \o textFrom(tree, ids, n + 1)

\* el.textContent
textContent(tree, el) == textFrom(tree, textNodes(tree, el), 1)

\* el.firstElementChild (0: none)
firstElementChild(tree, el) ==
  LET kids == { n \in elementsOf(tree) : tree[n].parent = el }
  IN  IF kids = {} THEN 0 ELSE SetMin(kids)

\* ------------------------------------------------------------------------
\* Style analysis and heading classification
\* ------------------------------------------------------------------------

\* a numeric font-weight from which text counts as bold
BoldWeight == 600

\* the first of the declarations hits, as String.prototype.match finds it
\* (0: no match)
firstDeclaration(hits) == IF hits = {} THEN 0 ELSE SetMin(hits)

\* what parseStyle returns for the matches found
styleOf(style, fontSizeMatch, fontWeightMatch, fontStyleMatch) ==
  [ fontSize |-> IF fontSizeMatch # 0 THEN style[fontSizeMatch].num ELSE 0,
    isBold |-> /\ fontWeightMatch # 0
               /\ \/ style[fontWeightMatch].word = "bold"
                  \/ style[fontWeightMatch].num >= BoldWeight,
    isItalic |-> fontStyleMatch # 0 ]

parseStyle(style) ==
  styleOf(style,
          firstDeclaration({ k \in DOMAIN style :
            style[k].prop = "font-size" /\ style[k].word = "pt" }),
          firstDeclaration({ k \in DOMAIN style :
            style[k].prop = "font-weight" /\ style[k].word \in { "bold", "number" } }),
          firstDeclaration({ k \in DOMAIN style :
            style[k].prop = "font-style" /\ style[k].word = "italic" }))

extractFontProperties(tree, el) ==
  LET all == { el } \cup descendantElements(tree, el)
      sizes == { parseStyle(tree[n].style).fontSize : n \in all } \cup { 0 }
  IN  [ fontSize |-> SetMax(sizes),
        isBold |-> \/ \E n \in all : parseStyle(tree[n].style).isBold
                   \/ \E n \in descendantElements(tree, el) :
                        tree[n].tag \in { "b", "strong" } ]

\* the thresholds of isLikelyHeading, getHeadingLevel and extractNestedHeading
Size12 == 12
Size14 == 14
Size16 == 16
Size18 == 18
Size20 == 20
BoldHeadingMax == 200
LargeHeadingMax == 300
DefaultLevel == 3

\* text.match(/^\d+\./)
startsWithEnumeration(text) ==
  LET e == RunEnd(text, 1, Digit)
  IN  e > 1 /\ e <= Len(text) /\ text[e] = "."

\* text.includes('.')
includesPeriod(text) == \E k \in DOMAIN text : text[k] = "."

isLikelyHeading(text, fontSize, isBold) ==
  \/ fontSize > Size14
  \/ (fontSize > Size12 /\ isBold)
  \/ (isBold /\ Len(text) < BoldHeadingMax /\ ~includesPeriod(text)
        /\ ~startsWithEnumeration(text))
  \/ (fontSize > Size16 /\ Len(text) < LargeHeadingMax)

getHeadingLevel(fontSize, isBold) ==
  IF fontSize > Size20 THEN 1
  ELSE IF fontSize > Size18 THEN 2
  ELSE IF fontSize > Size16 THEN 2
  ELSE IF fontSize > Size14 THEN 3
  ELSE IF isBold /\ fontSize > Size12 THEN 3
  ELSE 3

HeadingTags == << "h1", "h2", "h3", "h4", "h5", "h6" >>

\* tagName.match(/^h[1-6]$/)
isHeadingTag(tag) == \E k \in DOMAIN HeadingTags : HeadingTags[k] = tag

\* parseInt(tagName.charAt(1))
headingTagLevel(tag) == CHOOSE k \in DOMAIN HeadingTags : HeadingTags[k] = tag

\* the level of a styled nested heading when "let level" starts without a value
nestedStyleLevelUnset(fontSize) ==
  IF fontSize > Size18 THEN 1
  ELSE IF fontSize > Size16 THEN 2
  ELSE 0

\* the level extractNestedHeading gives a heading found by its style
nestedStyleLevel(fontSize) ==
  IF fontSize > Size18 THEN 1
  ELSE IF fontSize > Size16 THEN 2
  ELSE DefaultLevel

\* ------------------------------------------------------------------------
\* The segmenter
\* ------------------------------------------------------------------------
\* What the visit of one element yields: the sections it emits, for each of
\* them the text nodes its content was read from, and whether the element
\* was added to processedElements.

\* a span shorter than this is dropped
SpanMin == 50

nothing == [ emit |-> << >>, from |-> << >>, consume |-> FALSE ]

isPageMarker(node) ==
  /\ node.tag = "div"
  /\ Len(node.id) > 4
  /\ SubSeq(node.id, 1, 4) = << "p", "a", "g", "e" >>
  /\ \A k \in 5..Len(node.id) : node.id[k] \in Digit

\* isParentProcessed that looks at the parent only
isDirectParentProcessed(tree, el, processedElements) ==
  tree[el].parent \in processedElements

\* the while loop of isParentProcessed
isParentProcessed(tree, el, processedElements) ==
  \E parent \in ancestors(tree, el) : parent \in processedElements

\* the rest of extractNestedHeading once firstChild, the font properties and
\* headingText are known: [found |-> FALSE], or the heading and the remaining
\* text
nestedHeadingOf(tree, el, firstChild, props, headingText) ==
  IF headingText = << >> THEN [ found |-> FALSE ]
  ELSE IF /\ ~isHeadingTag(tree[firstChild].tag)
          /\ ~(\/ props.fontSize > Size14
               \/ (props.isBold /\ Len(headingText) < BoldHeadingMax))
  THEN [ found |-> FALSE ]
  ELSE [ found |-> TRUE,
         heading |->
           createSection("heading", headingText,
                         IF isHeadingTag(tree[firstChild].tag)
                         THEN headingTagLevel(tree[firstChild].tag)
                         ELSE nestedStyleLevel(props.fontSize),
                         << >>),
         headingNodes |-> textNodes(tree, firstChild),
         remainingText |->
           trim(textFrom(tree, textNodes(tree, el) \ textNodes(tree, firstChild), 1)),
         remainingNodes |-> textNodes(tree, el) \ textNodes(tree, firstChild) ]

nestedHeadingAt(tree, el, firstChild) ==
  IF firstChild = 0 THEN [ found |-> FALSE ]
  ELSE nestedHeadingOf(tree, el, firstChild, extractFontProperties(tree, el),
                       trim(textContent(tree, firstChild)))

extractNestedHeading(tree, el) ==
  nestedHeadingAt(tree, el, firstElementChild(tree, el))

processImage(tree, el) ==
  IF tree[el].src = << >> THEN nothing
  ELSE [ emit |-> << createSection("image", << >>, 0, << [ src |-> tree[el].src ] >>) >>,
         from |-> << {} >>,
         consume |-> TRUE ]

\* the rest of processHeading once the text is known
headingOf(tree, el, text) ==
  IF text = << >> THEN nothing
  ELSE [ emit |-> << createSection("heading", text,
                                   headingTagLevel(tree[el].tag), << >>) >>,
         from |-> << textNodes(tree, el) >>,
         consume |-> TRUE ]

processHeading(tree, el) == headingOf(tree, el, trim(textContent(tree, el)))

\* one section made of the whole text of the element
whole(tree, el, section) ==
  [ emit |-> << section >>, from |-> << textNodes(tree, el) >>, consume |-> TRUE ]

\* the return of processTextElement for a nested heading
nestedSections(nested) ==
  IF nested.remainingText # << >>
  THEN [ emit |-> << nested.heading,
                     createSection("paragraph", nested.remainingText, 0, << >>) >>,
         from |-> << nested.headingNodes, nested.remainingNodes >>,
         consume |-> TRUE ]
  ELSE [ emit |-> << nested.heading >>,
         from |-> << nested.headingNodes >>,
         consume |-> TRUE ]

\* textSectionsOf without the test for empty text
textSectionsUnchecked(tree, el, tagName, text, props, nested) ==
  IF nested.found THEN nestedSections(nested)
  ELSE IF isLikelyHeading(text, props.fontSize, props.isBold)
  THEN whole(tree, el, createSection("heading", text,
                                     getHeadingLevel(props.fontSize, props.isBold),
                                     << >>))
  ELSE IF tagName \in { "p", "div" }
  THEN whole(tree, el, createSection("paragraph", text, 0, << >>))
  ELSE IF tagName = "span" /\ Len(text) > SpanMin
  THEN whole(tree, el, createSection("paragraph", text, 0, << >>))
  ELSE nothing

\* the rest of processTextElement once the text, the font properties and
\* the nested heading are known
textSectionsOf(tree, el, tagName, text, props, nested) ==
  IF text = << >> THEN nothing
  ELSE IF nested.found THEN nestedSections(nested)
  ELSE IF isLikelyHeading(text, props.fontSize, props.isBold)
  THEN whole(tree, el, createSection("heading", text,
                                     getHeadingLevel(props.fontSize, props.isBold),
                                     << >>))
  ELSE IF tagName \in { "p", "div" }
  THEN whole(tree, el, createSection("paragraph", text, 0, << >>))
  ELSE IF tagName = "span" /\ Len(text) > SpanMin
  THEN whole(tree, el, createSection("paragraph", text, 0, << >>))
  ELSE nothing

processTextElement(tree, el) ==
  textSectionsOf(tree, el, tree[el].tag, trim(textContent(tree, el)),
                 extractFontProperties(tree, el),
                 IF tree[el].tag \in { "p", "div" } THEN extractNestedHeading(tree, el)
                 ELSE [ found |-> FALSE ])

\* which branch of the walker loop the element takes
branchOf(tree, el, processedElements) ==
  IF el \in processedElements THEN "skip"
  ELSE IF isPageMarker(tree[el]) THEN "marker"
  ELSE IF isParentProcessed(tree, el, processedElements) THEN "skip"
  ELSE IF tree[el].tag = "img" THEN "image"
  ELSE IF isHeadingTag(tree[el].tag) THEN "heading"
  ELSE IF tree[el].tag \in { "p", "div", "span" } THEN "text"
  ELSE "other"

\* dispatch that adds a page marker to processedElements before skipping it
dispatchConsumingMarker(tree, el, branch) ==
  IF branch = "image" THEN processImage(tree, el)
  ELSE IF branch = "heading" THEN processHeading(tree, el)
  ELSE IF branch = "text" THEN processTextElement(tree, el)
  ELSE IF branch = "marker" THEN [ emit |-> << >>, from |-> << >>, consume |-> TRUE ]
  ELSE nothing

\* what the branch does
dispatch(tree, el, branch) ==
  IF branch = "image" THEN processImage(tree, el)
  ELSE IF branch = "heading" THEN processHeading(tree, el)
  ELSE IF branch = "text" THEN processTextElement(tree, el)
  ELSE nothing

\* one turn of the walker loop
visit(tree, el, processedElements) ==
  dispatch(tree, el, branchOf(tree, el, processedElements))

\* walker.nextNode(): the next element after position n (0: none)
nextNode(tree, n) ==
  LET later == { m \in elementsOf(tree) : m > n }
  IN  IF later = {} THEN 0 ELSE SetMin(later)

\* the whole walker loop from the element after position n on
RECURSIVE walkFrom(_, _, _)
walkOn(tree, el, processedElements, v) ==
  IF el = 0 THEN << >>
  ELSE v.emit \o walkFrom(tree, el,
                          IF v.consume THEN processedElements \cup { el }
                          ELSE processedElements)

walkFrom(tree, n, processedElements) ==
  walkOn(tree, nextNode(tree, n), processedElements,
         IF nextNode(tree, n) = 0 THEN nothing
         ELSE visit(tree, nextNode(tree, n), processedElements))

\* the sections before the merge passes
segment(tree) == walkFrom(tree, 0, {})

parseHTMLIntoBlocks(tree) ==
  mergeAdjacentHeadings(mergeAdjacentParagraphs(mergeHyphenatedWords(segment(tree))))

\* ------------------------------------------------------------------------
\* The renderer
\* ------------------------------------------------------------------------

DigitSeq == << "0","1","2","3","4","5","6","7","8","9" >>

\* the decimal digits of an integer, as `${n}` writes them
RECURSIVE numberString(_)
numberString(n) ==
  IF n < 0 THEN << "-" >> \o numberString(0 - n)
  ELSE IF n < 10 THEN << DigitSeq[n + 1] >>
  ELSE numberString(n \div 10) \o << DigitSeq[(n % 10) + 1] >>

\* what innerHTML writes for one character of a text node
escapeChar(c) ==
  IF c = "&" THEN << "&", "a", "m", "p", ";" >>
  ELSE IF c = "<" THEN << "&", "l", "t", ";" >>
  ELSE IF c = ">" THEN << "&", "g", "t", ";" >>
  ELSE << c >>

RECURSIVE escapeHtml(_)
escapeHtml(text) ==
  IF text = << >> THEN << >>
  ELSE escapeChar(Head(text)) \o escapeHtml(Tail(text))

\* the deepest heading tag
MaxHeadingTag == 6

\* section.level || 2
FallbackLevel == 2

\* <img src="${image.src}" alt="" />
imageTag(image) ==
  IF image.src = << >> THEN << >>
  ELSE << "<", "i", "m", "g", " ", "s", "r", "c", "=", "\"" >> \o image.src
       \o << "\"", " ", "a", "l", "t", "=", "\"", "\"", " ", "/", ">" >>

RECURSIVE imageTags(_)
imageTags(images) ==
  IF images = << >> THEN << >>
  ELSE imageTag(Head(images)) \o imageTags(Tail(images))

\* `h${Math.min(section.level || 2, 6)}`
headingTagOf(level) ==
  LET l == IF level = 0 THEN FallbackLevel ELSE level
  IN  << "h" >> \o numberString(IF l < MaxHeadingTag THEN l ELSE MaxHeadingTag)

renderSection(section) ==
  IF section.content = << >> /\ section.images = << >> THEN << >>
  ELSE IF section.type = "heading"
  THEN << "<" >> \o headingTagOf(section.level) \o << ">" >>
       \o escapeHtml(section.content)
       \o << "<", "/" >> \o headingTagOf(section.level) \o << ">" >>
  ELSE IF section.type = "image" THEN imageTags(section.images)
  ELSE IF trim(section.content) # << >>
  THEN << "<", "p", ">" >> \o escapeHtml(section.content) \o << "<", "/", "p", ">" >>
       \o imageTags(section.images)
  ELSE << >>

RECURSIVE renderSections(_)
renderSections(S) ==
  IF S = << >> THEN << >>
  ELSE renderSection(Head(S)) \o renderSections(Tail(S))

\* ------------------------------------------------------------------------
\* Inputs
\* ------------------------------------------------------------------------

T_theCat == << "t","h","e"," ","c","a","t" >>

T_satDown == << "s","a","t"," ","d","o","w","n","." >>

T_SatDown == << "S","a","t"," ","d","o","w","n","." >>

T_Title == << "T","i","t","l","e" >>

T_blank == << " "," " >>

T_Introduction == << "I","n","t","r","o","d","u","c","t","i","o","n" >>

T_ofDeep == << "o","f"," ","d","e","e","p"," ","l","e","a","r","n","i","n","g"," ","m","o","d","e","l","s" >>

T_ofDeepRest == << "o","f"," ","d","e","e","p"," ","l","e","a","r","n","i","n","g"," ","m","o","d","e","l","s","\n","r","e","s","t"," ","h","e","r","e" >>

T_TheEnd == << "T","h","e"," ","e","n","d" >>

T_Done == << "D","o","n","e","." >>

T_abcdef == << "a","b","-","c","d","-","e","f" >>

T_ab == << "a","b","-" >>

T_ef == << "e","f" >>

T_k == << "k","-" >>

T_means == << "m","e","a","n","s" >>

T_Abstract == << "A","b","s","t","r","a","c","t","." >>

T_clustering == << " ","C","l","u","s","t","e","r","i","n","g"," ","i","s" >>

T_inner == << "i","n","n","e","r" >>

T_tail == << " ","t","a","i","l" >>

T_aLtB == << "a"," ","<"," ","b"," ","&"," ","c"," ",">"," ","d" >>

T_png == << "a",".","p","n","g" >>

T_evil == << "x","\"",">","<","s","c","r","i","p","t",">" >>

T_page1 == << "p","a","g","e","1" >>

T_page12 == << "p","a","g","e","1","2" >>

T_pagex == << "p","a","g","e","1","x" >>

repeat(c, n) == [ k \in 1..n |-> c ]

\* a line of exactly ContinuationMax characters that starts with "of "
T_long == << "o", "f", " " >> \o repeat("x", ContinuationMax - 3)

\* a line of exactly VeryShortMax characters that starts with no capital
T_mid == repeat("y", VeryShortMax)

\* a text longer than SpanMin
T_spanLong == repeat("z", SpanMin + 1)

element(tag, parent, id, style, src) ==
  [ tag |-> tag, parent |-> parent, id |-> id, style |-> style, src |-> src,
    text |-> << >> ]

textNode(parent, text) ==
  [ tag |-> "#text", parent |-> parent, id |-> << >>, style |-> << >>,
    src |-> << >>, text |-> text ]

\* style="top:72pt;font-size:<size>pt[;font-weight:bold]", as the extractor writes it
styled(size, bold) ==
  << [ prop |-> "top", num |-> 72, word |-> "pt" ],
     [ prop |-> "font-size", num |-> size, word |-> "pt" ] >>
  \o (IF bold THEN << [ prop |-> "font-weight", num |-> 0, word |-> "bold" ] >>
      ELSE << >>)

\* <tag style=...>text</tag>
block(tag, style, text) ==
  << element(tag, 0, << >>, style, << >>), textNode(1, text) >>

\* <tag><inner style=...>text</inner>rest</tag>
nestedBlock(tag, inner, style, text, rest) ==
  << element(tag, 0, << >>, << >>, << >>), element(inner, 1, << >>, style, << >>),
     textNode(2, text) >>
  \o (IF rest = << >> THEN << >> ELSE << textNode(1, rest) >>)

image(src) == << element("img", 0, << >>, << >>, src) >>

\* the nodes of a fragment, moved behind offset nodes and hung under container
place(fragment, offset, container) ==
  [ k \in DOMAIN fragment |->
      [ fragment[k] EXCEPT !.parent = IF @ = 0 THEN container ELSE @ + offset ] ]

RECURSIVE build(_, _, _)
build(fragments, offset, container) ==
  IF fragments = << >> THEN << >>
  ELSE place(Head(fragments), offset, container)
       \o build(Tail(fragments), offset + Len(Head(fragments)), container)

\* <div id=...>fragments</div>
inMarker(id, fragments) ==
  << element("div", 0, id, << >>, << >>) >> \o build(fragments, 1, 1)

\* the font sizes of the heading-detection examples: [size, bold]
HeadingStyles == { << 22, FALSE >>, << 19, FALSE >>, << 15, TRUE >> }

\* fragments of markup handed to parseHTMLIntoBlocks directly
ParseFragments ==
  { block("p", << >>, T_theCat),
    block("p", << >>, T_satDown),
    block("p", << >>, T_blank),
    block("h2", << >>, T_Introduction),
    block("p", << >>, T_ofDeepRest),
    block("span", << >>, T_Title),
    block("span", << >>, T_spanLong),
    image(T_png),
    image(<< >>),
    nestedBlock("p", "b", << >>, T_Abstract, T_clustering),
    nestedBlock("a", "p", << >>, T_SatDown, << >>),
    \* <div>inner<div id="page1"><a><p>the cat</p></a></div> tail</div>
    << element("div", 0, << >>, << >>, << >>), textNode(1, T_inner),
       element("div", 1, T_page1, << >>, << >>), element("a", 3, << >>, << >>, << >>),
       element("p", 4, << >>, << >>, << >>), textNode(5, T_theCat),
       textNode(1, T_tail) >>,
    inMarker(T_page12, << block("p", << >>, T_k), block("p", << >>, T_means) >>),
    inMarker(T_pagex, << block("h3", << >>, T_Title) >>) }
  \cup { block("p", styled(st[1], st[2]), T_Title) : st \in HeadingStyles }
  \cup { nestedBlock("p", "span", styled(st[1], st[2]), T_Title, << >>) : st \in HeadingStyles }

\* the most fragments in one markup string
MaxFragments == 2

\* the most sections in an input of a merge pass
MaxSections == 3

\* the most pages of a document
MaxPages == 2

SeqsUpTo(S, n) == UNION { [ 1..k -> S ] : k \in 0..n }

\* the markup strings: some fragments in a row, bare or inside a page marker
ParseInputs ==
  LET rows == SeqsUpTo(ParseFragments, MaxFragments)
  IN  { build(r, 0, 0) : r \in rows } \cup { inMarker(T_page1, r) : r \in rows }

\* the contents of the pages of a document (the extractor wraps each one in
\* its page marker)
PageContents ==
  { << >>,
    << block("p", << >>, T_theCat) >>,
    << block("p", << >>, T_satDown) >>,
    << block("h2", << >>, T_Introduction), block("p", << >>, T_ofDeep) >>,
    << image(T_evil), block("p", << >>, T_aLtB), block("b", << >>, T_Title) >>,
    << nestedBlock("p", "span", styled(19, FALSE), T_Title, << >>), image(T_png) >> }

paragraphOf(text) == createSection("paragraph", text, 0, << >>)

\* the sections handed to one merge pass
PassSections ==
  { paragraphOf(t) : t \in { T_abcdef, T_ab, T_ef, T_k, T_means, T_ofDeepRest,
                             T_long, T_mid, T_TheEnd, T_SatDown } }
  \cup { createSection("heading", T_Introduction, l, << >>) : l \in { 1, 2 } }
  \cup { createSection("heading", T_Done, 2, << >>),
         createSection("image", << >>, 0, << [ src |-> T_png ] >>) }

PassInputs == SeqsUpTo(PassSections, MaxSections)

\* ------------------------------------------------------------------------
\* State
\* ------------------------------------------------------------------------

VARIABLES
  doc,                \* the pages of the document: the contents of each
  pageNo,             \* i of extractSectionsFromDocument
  docSections,        \* sections of extractSectionsFromDocument
  tree,               \* tempDiv of the running parseHTMLIntoBlocks call
  cursor,             \* the node the walker stands on (0: the root)
  processedElements,  \* the consumed set
  sections,           \* sections of parseHTMLIntoBlocks
  origins,            \* for each of them, the element and text nodes it came from
  before,             \* the argument of the merge pass that ran last
  mergedSections,     \* its result
  html,               \* the rendered markup
  changed,            \* changed of the running mergeAdjacentParagraphs call
  page,               \* the elements of the page: loading, error, pdfContainer
  loads,              \* the loadPDFFromFile calls, in the order they started
  pc                  \* where the program stands

vars == << doc, pageNo, docSections, tree, cursor, processedElements,
           sections, origins, before, mergedSections, html, changed, page,
           loads, pc >>

docVars == << doc, pageNo, docSections >>

walkVars == << tree, cursor, processedElements, sections, origins >>

loadVars == << page, loads >>

\* the page before any handler ran: nothing loaded, indicator and banner hidden
blankPage ==
  [ loadingHidden |-> TRUE, errorHidden |-> TRUE, errorText |-> "",
    pdfContainer |-> << >> ]

\* ------------------------------------------------------------------------
\* parseHTMLIntoBlocks, step by step
\* ------------------------------------------------------------------------

\* the walker stands on el, which yields v
Emit(el, v) ==
  /\ cursor' = el
  /\ sections' = sections \o v.emit
  /\ origins' = origins \o [ k \in DOMAIN v.from |-> [ el |-> el, texts |-> v.from[k] ] ]
  /\ processedElements' = IF v.consume THEN processedElements \cup { el }
                          ELSE processedElements
  /\ UNCHANGED << docVars, tree, before, mergedSections, html, pc, changed, loadVars >>

Step(el, branch) ==
  /\ el # 0
  /\ branchOf(tree, el, processedElements) = branch
  /\ Emit(el, dispatch(tree, el, branch))

\* the walker moves to the next element, which takes the given branch
Walk(branch) == Step(nextNode(tree, cursor), branch)

\* the element, or an ancestor of it, is in processedElements
WalkSkip ==
  /\ pc = "walk"
  /\ Walk("skip")

WalkPageMarker ==
  /\ pc = "walk"
  /\ Walk("marker")

WalkImage ==
  /\ pc = "walk"
  /\ Walk("image")

WalkHeading ==
  /\ pc = "walk"
  /\ Walk("heading")

WalkText ==
  /\ pc = "walk"
  /\ Walk("text")

\* a tag the loop has no case for
WalkOther ==
  /\ pc = "walk"
  /\ Walk("other")

\* walker.nextNode() returns null, and Pass 1 runs
RunPass1 ==
  /\ pc = "walk"
  /\ nextNode(tree, cursor) = 0
  /\ before' = sections
  /\ mergedSections' = mergeHyphenatedWords(sections)
  /\ pc' = "pass2"
  /\ UNCHANGED << docVars, walkVars, html, changed, loadVars >>

RunPass2 ==
  /\ pc = "pass2"
  /\ before' = mergedSections
  /\ mergedSections' = mergeAdjacentParagraphs(mergedSections)
  /\ pc' = "pass3"
  /\ UNCHANGED << docVars, walkVars, html, changed, loadVars >>

RunPass3 ==
  /\ pc = "pass3"
  /\ before' = mergedSections
  /\ mergedSections' = mergeAdjacentHeadings(mergedSections)
  /\ pc' = "return"
  /\ UNCHANGED << docVars, walkVars, html, changed, loadVars >>

Parse ==
  \/ WalkSkip \/ WalkPageMarker \/ WalkImage \/ WalkHeading \/ WalkText
  \/ WalkOther \/ RunPass1 \/ RunPass2 \/ RunPass3

\* ------------------------------------------------------------------------
\* processPDFFile: extractSectionsFromDocument, then renderSections
\* ------------------------------------------------------------------------

\* structuredText.asHTML(i), parsed: the page inside its marker <div id="page<i>">
asHTML(content, i) == inMarker(<< "p", "a", "g", "e" >> \o numberString(i), content)

\* the loop body up to the call of parseHTMLIntoBlocks(pageHTML)
LoadPage ==
  /\ pc = "page"
  /\ pageNo < Len(doc)
  /\ tree' = asHTML(doc[pageNo + 1], pageNo)
  /\ cursor' = 0
  /\ processedElements' = {}
  /\ sections' = << >>
  /\ origins' = << >>
  /\ pc' = "walk"
  /\ UNCHANGED << docVars, before, mergedSections, html, changed, loadVars >>

\* sections.push(...pageSections); i++
PushPage ==
  /\ pc = "return"
  /\ docSections' = docSections \o mergedSections
  /\ pageNo' = pageNo + 1
  /\ pc' = "page"
  /\ UNCHANGED << doc, walkVars, before, mergedSections, html, changed, loadVars >>

\* the loop ends; renderSections(sections)
Render ==
  /\ pc = "page"
  /\ pageNo >= Len(doc)
  /\ html' = renderSections(docSections)
  /\ pc' = "done"
  /\ UNCHANGED << docVars, walkVars, before, mergedSections, changed, loadVars >>

Init ==
  /\ doc \in SeqsUpTo(PageContents, MaxPages)
  /\ pageNo = 0
  /\ docSections = << >>
  /\ tree = << >>
  /\ cursor = 0
  /\ processedElements = {}
  /\ sections = << >>
  /\ origins = << >>
  /\ before = << >>
  /\ mergedSections = << >>
  /\ html = << >>
  /\ changed = FALSE
  /\ page = blankPage
  /\ loads = << >>
  /\ pc = "page"

Next == Parse \/ LoadPage \/ PushPage \/ Render

Spec == Init /\ [][Next]_vars

\* ------------------------------------------------------------------------
\* parseHTMLIntoBlocks and renderSections called on a markup string, as the
\* tests call them
\* ------------------------------------------------------------------------

RenderParsed ==
  /\ pc = "return"
  /\ html' = renderSections(mergedSections)
  /\ pc' = "done"
  /\ UNCHANGED << docVars, walkVars, before, mergedSections, changed, loadVars >>

InitParse ==
  /\ doc = << >>
  /\ pageNo = 0
  /\ docSections = << >>
  /\ tree \in ParseInputs
  /\ cursor = 0
  /\ processedElements = {}
  /\ sections = << >>
  /\ origins = << >>
  /\ before = << >>
  /\ mergedSections = << >>
  /\ html = << >>
  /\ changed = FALSE
  /\ page = blankPage
  /\ loads = << >>
  /\ pc = "walk"

NextParse == Parse \/ RenderParsed

SpecParse == InitParse /\ [][NextParse]_vars

\* ------------------------------------------------------------------------
\* The merge passes, each applied to a section sequence
\* ------------------------------------------------------------------------

ApplyPass1 ==
  /\ pc = "input"
  /\ before' = sections
  /\ mergedSections' = mergeHyphenatedWords(sections)
  /\ pc' = "pass1"
  /\ UNCHANGED << docVars, walkVars, html, changed, loadVars >>

\* Pass 1 on its own result
ApplyPass1Again ==
  /\ pc = "pass1"
  /\ before' = mergedSections
  /\ mergedSections' = mergeHyphenatedWords(mergedSections)
  /\ pc' = "pass1twice"
  /\ UNCHANGED << docVars, walkVars, html, changed, loadVars >>

ApplyPass2 ==
  /\ pc = "input"
  /\ before' = sections
  /\ mergedSections' = mergeAdjacentParagraphs(sections)
  /\ pc' = "pass2"
  /\ UNCHANGED << docVars, walkVars, html, changed, loadVars >>

ApplyPass3 ==
  /\ pc = "input"
  /\ before' = sections
  /\ mergedSections' = mergeAdjacentHeadings(sections)
  /\ pc' = "pass3"
  /\ UNCHANGED << docVars, walkVars, html, changed, loadVars >>

InitPass ==
  /\ doc = << >>
  /\ pageNo = 0
  /\ docSections = << >>
  /\ tree = << >>
  /\ cursor = 0
  /\ processedElements = {}
  /\ sections \in PassInputs
  /\ origins = << >>
  /\ before = << >>
  /\ mergedSections = << >>
  /\ html = << >>
  /\ changed = FALSE
  /\ page = blankPage
  /\ loads = << >>
  /\ pc = "input"

NextPass == ApplyPass1 \/ ApplyPass1Again \/ ApplyPass2 \/ ApplyPass3

SpecPass == InitPass /\ [][NextPass]_vars

\* ------------------------------------------------------------------------
\* mergeHyphenatedWords on paragraphs that begin with any kind of character
\* ------------------------------------------------------------------------

T_1st == << "1", "s", "t" >>

T_paren == << "(", "x", ")" >>

HyphenSections ==
  { paragraphOf(t) : t \in { T_ab, T_ef, T_SatDown, T_1st, T_paren, T_blank } }
  \cup { createSection("heading", T_Title, 2, << >>),
         createSection("image", << >>, 0, << [ src |-> T_png ] >>) }

HyphenInputs == SeqsUpTo(HyphenSections, MaxSections)

InitHyphen ==
  /\ doc = << >>
  /\ pageNo = 0
  /\ docSections = << >>
  /\ tree = << >>
  /\ cursor = 0
  /\ processedElements = {}
  /\ sections \in HyphenInputs
  /\ origins = << >>
  /\ before = << >>
  /\ mergedSections = << >>
  /\ html = << >>
  /\ changed = FALSE
  /\ page = blankPage
  /\ loads = << >>
  /\ pc = "input"

NextHyphen == ApplyPass1

SpecHyphen == InitHyphen /\ [][NextHyphen]_vars

\* ------------------------------------------------------------------------
\* mergeAdjacentParagraphs, scan by scan
\* ------------------------------------------------------------------------

\* a paragraph of ShortParagraph characters, without punctuation
T_full == repeat("w", ShortParagraph)

ScanSections ==
  { paragraphOf(t) : t \in { T_theCat, T_satDown, T_SatDown, T_ab, T_blank, T_full } }
  \cup { createSection("heading", T_Title, 2, << >>),
         createSection("image", << >>, 0, << [ src |-> T_png ] >>) }

ScanInputs == SeqsUpTo(ScanSections, MaxSections)

\* let merged = [...sections]; let changed = true
Pass2Enter ==
  /\ pc = "input"
  /\ before' = sections
  /\ mergedSections' = sections
  /\ changed' = TRUE
  /\ pc' = "scan"
  /\ UNCHANGED << docVars, walkVars, html, loadVars >>

\* one turn of while (changed): the for-loop, then merged = newMerged
Pass2Scan ==
  /\ pc = "scan"
  /\ changed
  /\ mergedSections' = paragraphScan(mergedSections, 1).newMerged
  /\ changed' = paragraphScan(mergedSections, 1).changed
  /\ UNCHANGED << docVars, walkVars, before, html, loadVars, pc >>

\* the while loop ends; return merged
Pass2Return ==
  /\ pc = "scan"
  /\ ~changed
  /\ pc' = "pass2"
  /\ UNCHANGED << docVars, walkVars, before, mergedSections, html, changed, loadVars >>

InitScan ==
  /\ doc = << >>
  /\ pageNo = 0
  /\ docSections = << >>
  /\ tree = << >>
  /\ cursor = 0
  /\ processedElements = {}
  /\ sections \in ScanInputs
  /\ origins = << >>
  /\ before = << >>
  /\ mergedSections = << >>
  /\ html = << >>
  /\ changed = FALSE
  /\ page = blankPage
  /\ loads = << >>
  /\ pc = "input"

NextScan == Pass2Enter \/ Pass2Scan \/ Pass2Return

SpecScan == InitScan /\ [][NextScan]_vars

\* ------------------------------------------------------------------------
\* renderSections called on sections of any level, as a caller of the
\* exported function may
\* ------------------------------------------------------------------------

\* the levels handed to the renderer run from -MaxLevelInput to MaxLevelInput
MaxLevelInput == 8

\* the most sections in an input of the renderer
MaxRendered == 2

RenderedSections ==
  { createSection("heading", T_Title, l, << >>) :
      l \in (0 - MaxLevelInput)..MaxLevelInput }
  \cup { paragraphOf(T_aLtB),
         createSection("image", << >>, 0, << [ src |-> T_png ] >>) }

RenderInputs == SeqsUpTo(RenderedSections, MaxRendered)

RenderGiven ==
  /\ pc = "input"
  /\ html' = renderSections(sections)
  /\ pc' = "rendered"
  /\ UNCHANGED << docVars, walkVars, before, mergedSections, changed, loadVars >>

InitRender ==
  /\ doc = << >>
  /\ pageNo = 0
  /\ docSections = << >>
  /\ tree = << >>
  /\ cursor = 0
  /\ processedElements = {}
  /\ sections \in RenderInputs
  /\ origins = << >>
  /\ before = << >>
  /\ mergedSections = << >>
  /\ html = << >>
  /\ changed = FALSE
  /\ page = blankPage
  /\ loads = << >>
  /\ pc = "input"

NextRender == RenderGiven

SpecRender == InitRender /\ [][NextRender]_vars

\* ------------------------------------------------------------------------
\* The page: loadPDFFromFile calls started by loadTestPDF and handleFileSelect
\* ------------------------------------------------------------------------

showError(p, message) ==
  [ p EXCEPT !.errorText = message, !.errorHidden = FALSE, !.loadingHidden = TRUE ]

hideError(p) == [ p EXCEPT !.errorHidden = TRUE ]

showLoading(p) == hideError([ p EXCEPT !.loadingHidden = FALSE ])

hideLoading(p) == [ p EXCEPT !.loadingHidden = TRUE ]

clearContainer(p) == [ p EXCEPT !.pdfContainer = << >> ]

\* the loop of extractSectionsFromDocument from page i on
RECURSIVE extractFrom(_, _)
extractFrom(pages, i) ==
  IF i >= Len(pages) THEN << >>
  ELSE parseHTMLIntoBlocks(asHTML(pages[i + 1], i)) \o extractFrom(pages, i + 1)

extractSectionsFromDocument(pages) == extractFrom(pages, 0)

\* what the promise of processPDFFile(file) settles with: the markup, or the
\* error layoutDocument throws for a document that cannot be laid out
processPDFFile(file) ==
  IF file.reflowable
  THEN [ ok |-> TRUE, value |-> renderSections(extractSectionsFromDocument(file.pages)),
         message |-> "" ]
  ELSE [ ok |-> FALSE, value |-> << >>,
         message |-> "This PDF is not reflowable. Reflow mode requires a tagged PDF." ]

pdfFile(reflowable, pages) ==
  [ type |-> "application/pdf", reflowable |-> reflowable, pages |-> pages ]

\* the files a user picks and the test file the server may hold
Files ==
  { pdfFile(TRUE, << << block("p", << >>, T_theCat) >> >>),
    pdfFile(TRUE, << << block("h2", << >>, T_Introduction) >>,
                     << block("p", << >>, T_satDown) >> >>),
    pdfFile(FALSE, << >>),
    [ type |-> "text/plain", reflowable |-> FALSE, pages |-> << >> ] }

\* the most loadPDFFromFile calls of a run
MaxLoads == 3

\* loadPDFFromFile up to its await
startLoad(file) ==
  /\ Len(loads) < MaxLoads
  /\ page' = clearContainer(showLoading(page))
  /\ loads' = Append(loads, [ file |-> file, state |-> "awaiting" ])

\* loadTestPDF: the fetch answered ok, and the load of the test file starts
LoadTestPDF ==
  /\ pc = "start"
  /\ \E file \in Files :
       /\ file.type = "application/pdf"
       /\ startLoad(file)
  /\ pc' = "open"
  /\ UNCHANGED << docVars, walkVars, before, mergedSections, html, changed >>

\* loadTestPDF: the response is not ok (or fetch throws), nothing is loaded
SkipTestPDF ==
  /\ pc = "start"
  /\ pc' = "open"
  /\ UNCHANGED << docVars, walkVars, before, mergedSections, html, changed, loadVars >>

\* a change event of the file input
handleFileSelect ==
  /\ pc \in { "start", "open" }
  /\ \E file \in Files :
       /\ file.type = "application/pdf"
       /\ startLoad(file)
  /\ UNCHANGED << docVars, walkVars, before, mergedSections, html, changed, pc >>

\* the try block of loadPDFFromFile after the await
LoadFulfilled ==
  /\ pc \in { "start", "open" }
  /\ \E k \in DOMAIN loads :
       /\ loads[k].state = "awaiting"
       /\ processPDFFile(loads[k].file).ok
       /\ page' = hideLoading([ page EXCEPT
                     !.pdfContainer = processPDFFile(loads[k].file).value ])
       /\ loads' = [ loads EXCEPT ![k].state = "settled" ]
  /\ UNCHANGED << docVars, walkVars, before, mergedSections, html, changed, pc >>

\* the catch block of loadPDFFromFile
LoadRejected ==
  /\ pc \in { "start", "open" }
  /\ \E k \in DOMAIN loads :
       /\ loads[k].state = "awaiting"
       /\ ~processPDFFile(loads[k].file).ok
       /\ page' = showError(page, "Failed to load PDF: "
                                    \o processPDFFile(loads[k].file).message)
       /\ loads' = [ loads EXCEPT ![k].state = "settled" ]
  /\ UNCHANGED << docVars, walkVars, before, mergedSections, html, changed, pc >>

InitLoad ==
  /\ doc = << >>
  /\ pageNo = 0
  /\ docSections = << >>
  /\ tree = << >>
  /\ cursor = 0
  /\ processedElements = {}
  /\ sections = << >>
  /\ origins = << >>
  /\ before = << >>
  /\ mergedSections = << >>
  /\ html = << >>
  /\ changed = FALSE
  /\ page = blankPage
  /\ loads = << >>
  /\ pc = "start"

NextLoad ==
  LoadTestPDF \/ SkipTestPDF \/ handleFileSelect \/ LoadFulfilled \/ LoadRejected

SpecLoad == InitLoad /\ [][NextLoad]_vars

\* ------------------------------------------------------------------------
\* Properties
\* ------------------------------------------------------------------------

\* needle occurs in hay
contains(hay, needle) ==
  \E k \in 0..(Len(hay) - Len(needle)) :
    SubSeq(hay, k + 1, k + Len(needle)) = needle

\* how often c occurs in text
count(text, c) == Cardinality({ k \in DOMAIN text : text[k] = c })

RECURSIVE flatten(_)
flatten(seqs) ==
  IF seqs = << >> THEN << >> ELSE Head(seqs) \o flatten(Tail(seqs))

isParagraph(section) == section.type = "paragraph"

\* --- C1 -----------------------------------------------------------------

\* the initial sections of every page, in page order
C1_AllPageSections ==
  flatten([ i \in DOMAIN doc |-> segment(asHTML(doc[i], i - 1)) ])

\* page n ends in a paragraph without final punctuation and page n + 1
\* starts with a paragraph that begins with a lowercase letter
C1_SentenceAcross(n) ==
  LET a == segment(asHTML(doc[n], n - 1))
      b == segment(asHTML(doc[n + 1], n))
  IN  /\ a # << >> /\ b # << >>
      /\ isParagraph(a[Len(a)]) /\ isParagraph(b[1])
      /\ ~endsWithPunctuation(trim(a[Len(a)].content))
      /\ b[1].content[1] \in Lower

C1_JoinedAcross(n) ==
  LET a == segment(asHTML(doc[n], n - 1))
      b == segment(asHTML(doc[n + 1], n))
  IN  \E k \in DOMAIN docSections :
        /\ isParagraph(docSections[k])
        /\ contains(docSections[k].content, a[Len(a)].content)
        /\ contains(docSections[k].content, b[1].content)

\* C1: when a document has been processed, the sections returned are the
\* three merge passes run once over the page-ordered concatenation of all
\* pages' sections, and a sentence that runs from the last paragraph of one
\* page into the first paragraph of the next is returned as one paragraph
\* holding both texts.
C1_MergeRunsOverWholeDocument ==
  pc = "done" =>
    /\ docSections =
         mergeAdjacentHeadings(mergeAdjacentParagraphs(
           mergeHyphenatedWords(C1_AllPageSections)))
    /\ \A n \in 1..(Len(doc) - 1) : C1_SentenceAcross(n) => C1_JoinedAcross(n)

\* --- C2 -----------------------------------------------------------------

\* C2: Pass 1 is idempotent: applied to its own result it returns a sequence
\* of the same length, types and contents.
C2_Pass1Idempotent ==
  pc = "pass1twice" => mergedSections = before

\* --- C3 -----------------------------------------------------------------

\* the tags the renderer itself writes for a section
C3_TagsWritten(section) ==
  LET imgs == Cardinality({ k \in DOMAIN section.images : section.images[k].src # << >> })
  IN  IF section.content = << >> /\ section.images = << >> THEN 0
      ELSE IF section.type = "heading" THEN 2
      ELSE IF section.type = "image" THEN imgs
      ELSE IF trim(section.content) # << >> THEN 2 + imgs
      ELSE 0

RECURSIVE C3_TagsOf(_)
C3_TagsOf(S) ==
  IF S = << >> THEN 0 ELSE C3_TagsWritten(Head(S)) + C3_TagsOf(Tail(S))

\* C3: in the rendered markup every "<" and every ">" belongs to a tag the
\* renderer wrote (one opening and one closing tag for a heading or a
\* paragraph, one tag for an image), so that nothing taken from the text or
\* from an image src opens or closes a tag, and no raw <script> comes out.
C3_OnlyRendererTags ==
  pc = "done" =>
    /\ count(html, "<") = C3_TagsOf(docSections)
    /\ count(html, ">") = C3_TagsOf(docSections)
    /\ ~contains(html, << "<", "s", "c", "r", "i", "p", "t", ">" >>)

\* --- C4 -----------------------------------------------------------------

\* C4: no merge pass returns more sections than it was given.
C4_PassesNeverGrow ==
  pc \in { "pass1", "pass1twice", "pass2", "pass3" } =>
    Len(mergedSections) <= Len(before)

\* Pass 3 made a heading absorb the first line of a paragraph of several
\* lines and emitted the remaining lines as a new paragraph
C4_Witness ==
  /\ pc = "pass3"
  /\ Len(before) = 2
  /\ before[1].type = "heading"
  /\ before[2] = paragraphOf(T_ofDeepRest)
  /\ Len(mergedSections) = 2
  /\ mergedSections[1].type = "heading"
  /\ mergedSections[1].content # before[1].content
  /\ mergedSections[2] = paragraphOf(<< "r", "e", "s", "t", " ", "h", "e", "r", "e" >>)

\* --- C5 -----------------------------------------------------------------

\* an id made of "page" and one or more digits
C5_PageId(id) ==
  /\ Len(id) >= 5
  /\ id[1] = "p" /\ id[2] = "a" /\ id[3] = "g" /\ id[4] = "e"
  /\ \A k \in 5..Len(id) : id[k] \in Digit

C5_Marker(node) == node.tag = "div" /\ C5_PageId(node.id)

\* the whole markup is wrapped in one page marker
C5_Wrapped ==
  /\ tree # << >>
  /\ C5_Marker(tree[1])
  /\ \A n \in 2..Len(tree) : tree[n].parent # 0

\* the markup inside the wrapper, on its own
C5_Unwrapped ==
  [ n \in 1..(Len(tree) - 1) |-> [ tree[n + 1] EXCEPT !.parent = @ - 1 ] ]

\* C5: a page marker emits no section and is never consumed, and the
\* sections of markup wrapped in a page marker are those of the same markup
\* without the wrapper.
C5_PageMarkerTransparent ==
  /\ \A el \in processedElements : ~C5_Marker(tree[el])
  /\ \A k \in DOMAIN origins : ~C5_Marker(tree[origins[k].el])
  /\ (pc # "walk" /\ C5_Wrapped) => sections = segment(C5_Unwrapped)

\* the walk of a wrapped markup is over and gave several sections
C5_Witness ==
  /\ pc = "pass2"
  /\ C5_Wrapped
  /\ Len(sections) >= 2
  /\ \E n \in 2..Len(tree) : C5_Marker(tree[n])

\* --- C6 -----------------------------------------------------------------

\* the example sizes and the level claimed for each
C6_ClaimedLevel(props) ==
  IF props.fontSize = 22 THEN 1
  ELSE IF props.fontSize = 19 THEN 2
  ELSE IF props.fontSize = 15 /\ props.isBold THEN 3
  ELSE 0

\* C6: a p or div styled at 22pt is a heading of level 1, at 19pt of level
\* 2, at 15pt bold of level 3, whether the style sits on the element or on
\* its first child.
C6_LevelFromSizeOnBothPaths ==
  \A k \in DOMAIN sections :
    LET el == origins[k].el
        claimed == C6_ClaimedLevel(extractFontProperties(tree, el))
    IN  (tree[el].tag \in { "p", "div" } /\ claimed # 0) =>
          (sections[k].type = "heading" /\ sections[k].level = claimed)

\* --- C7 -----------------------------------------------------------------

\* the hyphens of text that have fewer than two word characters before them
C7_LoneHyphens(text) ==
  Cardinality({ p \in DOMAIN text :
                  /\ text[p] = "-"
                  /\ ~(p > 2 /\ text[p - 1] \in WordChar /\ text[p - 2] \in WordChar) })

\* the contents of the sections, one per line
C7_AllText(S) == flatten([ k \in DOMAIN S |-> S[k].content \o << "\n" >> ])

\* C7: Pass 1 removes no hyphen that has fewer than two word characters
\* before it, within a section or across two paragraphs: every such hyphen
\* of the input is still in the output.
C7_LoneHyphenKept ==
  pc = "pass1" =>
    count(C7_AllText(mergedSections), "-") >= C7_LoneHyphens(C7_AllText(before))

\* --- C8 -----------------------------------------------------------------

C8_FirstLine(paragraph) == trim(firstLineOf(trim(paragraph.content)))

C8_Rest(paragraph) == trim(restLinesOf(trim(paragraph.content)))

\* the merge condition as the claim words it
C8_Merges(heading, paragraph) ==
  LET line == C8_FirstLine(paragraph)
      text == trim(heading.content)
  IN  /\ ~(text # << >> /\ text[Len(text)] \in { ".", "!", "?" })
      /\ Len(line) < 50
      /\ \/ \E w \in ContinuationWords :
              /\ Len(line) > Len(w)
              /\ \A k \in DOMAIN w : toLowerCase(line[k]) = w[k]
              /\ line[Len(w) + 1] \in Space
         \/ (~(line # << >> /\ line[1] \in Upper) /\ Len(line) < 30)

C10_NonEmpty(S) ==
  \A k \in DOMAIN S : S[k].type # "image" => trim(S[k].content) # << >>

\* C10: no heading or paragraph has empty trimmed content, in the sections
\* of the walker, after each pass and in what parseHTMLIntoBlocks returns.
C10_NoEmptyText ==
  /\ C10_NonEmpty(sections)
  /\ C10_NonEmpty(mergedSections)

\* markup with a whitespace-only text has been parsed to the end and gave
\* sections
C10_Witness ==
  /\ pc = "return"
  /\ mergedSections # << >>
  /\ \E n \in DOMAIN tree :
       isText(tree[n]) /\ tree[n].text # << >> /\ trim(tree[n].text) = << >>

\* ---- C11 ----

\* the level clamped into 1..6
C11_Clamped(level) ==
  IF level < 1 THEN 1 ELSE IF level > MaxHeadingTag THEN MaxHeadingTag ELSE level

C11_OpenTag(level) == << "<", "h" >> \o numberString(C11_Clamped(level)) \o << ">" >>

\* C11: renderSection renders a heading section with the tag h<k>, k being
\* the section's level clamped into 1..6: a level below 1 (0 and the negative
\* ones) renders as h1, a level above 6 as h6, a level in 1..6 unchanged.
C11_HeadingTagClamped ==
  pc = "rendered" =>
    \A k \in DOMAIN sections :
      sections[k].type = "heading" => contains(html, C11_OpenTag(sections[k].level))

\* ---- C12 ----

\* the Pass 2 merge condition on the trimmed contents of two paragraphs
C12_Condition(first, second) ==
  LET terminal == Len(first) > 0 /\ first[Len(first)] \in { ".", "!", "?" }
      lowercase == toLowerCase(second[1]) = second[1]
  IN  \/ ~terminal /\ lowercase
      \/ Len(first) > 0 /\ first[Len(first)] = "-"
      \/ Len(first) < ShortParagraph /\ ~terminal /\ lowercase

\* S holds an adjacent pair of paragraphs that Pass 2 would still merge
C12_Mergeable(S) ==
  \E k \in 1..(Len(S) - 1) :
    /\ isParagraph(S[k])
    /\ isParagraph(S[k + 1])
    /\ trim(S[k + 1].content) # << >>
    /\ C12_Condition(trim(S[k].content), trim(S[k + 1].content))

\* what Pass 2 returns is a fixed point of it
C12_Returned ==
  pc = "pass2" =>
    /\ ~C12_Mergeable(mergedSections)
    /\ mergedSections = mergeAdjacentParagraphs(before)

\* a scan that merges shortens the list, and one that does not ends the loop
\* with the list as it was
C12_ScanShortens ==
  (pc = "scan" /\ pc' = "scan") =>
    IF changed' THEN Len(mergedSections') < Len(mergedSections)
    ELSE mergedSections' = mergedSections /\ ~C12_Mergeable(mergedSections)

\* C12: Pass 2 (mergeAdjacentParagraphs) terminates on every finite section
\* sequence (every scan but the last one shortens the list) and returns a
\* fixed point: the result holds no adjacent pair of paragraphs, the second
\* with non-empty trimmed content, that satisfies the Pass 2 merge condition.
C12_Pass2ReachesFixedPoint == [](C12_Returned) /\ [][C12_ScanShortens]_vars

\* three paragraphs became one: two scans merged, a third found nothing
C12_Witness ==
  /\ pc = "pass2"
  /\ Len(before) = 3
  /\ \A k \in DOMAIN before : isParagraph(before[k])
  /\ Len(mergedSections) = 1

\* ---- C13 ----

\* Pass 1 was handed exactly two sections, both paragraphs
C13_Pair == pc = "pass1" /\ Len(before) = 2 /\ \A k \in { 1, 2 } : isParagraph(before[k])

\* the first ends in a hyphen and the second begins with a lowercase letter
C13_Splits(first, second) ==
  /\ Len(first) > 0 /\ first[Len(first)] = "-"
  /\ Len(second) > 0 /\ second[1] \in Lower

\* the first text without its final hyphen, then the second, fixed again
C13_Joined(first, second) ==
  fixHyphenatedWords(SubSeq(first, 1, Len(first) - 1) \o second)

\* C13: Pass 1 merges an adjacent pair of paragraphs into one exactly when
\* the first's trimmed content ends in a hyphen and the second's trimmed
\* content begins with a lowercase letter; a pair whose second paragraph
\* begins with an uppercase letter, a digit, punctuation or anything else is
\* not merged and both pass through.  The merged paragraph is the first text
\* without its final hyphen followed by the second text, fixed again.
C13_MergesOnLowercaseLetterOnly ==
  C13_Pair =>
    LET first == trim(fixHyphenatedWords(before[1].content))
        second == trim(before[2].content)
    IN  IF C13_Splits(first, second)
        THEN mergedSections = << paragraphOf(C13_Joined(first, second)) >>
        ELSE /\ Len(mergedSections) = 2
             /\ \A k \in { 1, 2 } :
                  mergedSections[k] = [ before[k] EXCEPT !.content = fixHyphenatedWords(@) ]

\* ---- C14 ----

\* Pass 3 was handed two headings of one level and a third section
C14_TwoHeadingsThen(type) ==
  /\ pc = "pass3"
  /\ Len(before) = 3
  /\ before[1].type = "heading"
  /\ before[2].type = "heading"
  /\ before[1].level = before[2].level
  /\ before[3].type = type

\* the third section is a heading of the same level as the first two
C14_ThreeHeadings == C14_TwoHeadingsThen("heading") /\ before[3].level = before[1].level

\* the third section is a paragraph that reads as the continuation of the
\* heading the first two merge into
C14_ContinuationAfterTwo ==
  /\ C14_TwoHeadingsThen("paragraph")
  /\ looksLikeContinuation(trim(firstLineOf(trim(before[3].content))))
  /\ ~endsWithPunctuation(trim(before[2].content))

\* the first two headings merged, the third section as it came
C14_FirstTwoMerged ==
  mergedSections =
    << createSection("heading", before[1].content \o << " " >> \o before[2].content,
                     before[1].level, << >>),
       before[3] >>

\* C14: Pass 3 is a single left-to-right scan in which each input section
\* takes part in at most one merge and a triggered rule consumes exactly the
\* one following section; a merged heading is not compared with the section
\* after it.  Three consecutive headings of one level give the merged first
\* two and the third unchanged, and a paragraph after two merged headings
\* passes through unchanged even if it reads as a continuation.
C14_SingleScan ==
  /\ pc = "pass3" => 2 * Len(mergedSections) >= Len(before)
  /\ C14_ThreeHeadings => C14_FirstTwoMerged
  /\ C14_TwoHeadingsThen("paragraph") => C14_FirstTwoMerged

C14_Witness == C14_ContinuationAfterTwo /\ C14_FirstTwoMerged

\* ---- C15 ----

\* headings have a level in 1..6, paragraphs and images have level 0
C15_Levels(S) ==
  \A k \in DOMAIN S :
    IF S[k].type = "heading" THEN S[k].level \in 1..MaxHeadingTag
    ELSE S[k].level = 0

\* every heading of S is rendered with the tag of its own level
C15_OwnTags(S) ==
  \A k \in DOMAIN S :
    S[k].type = "heading" =>
      contains(html, << "<", "h" >> \o numberString(S[k].level) \o << ">" >>)

\* C15: in every sequence returned by parseHTMLIntoBlocks each heading
\* section has an integer level in 1..6 and each paragraph or image section
\* has level 0, whichever segmentation path and merge pass produced it, so
\* the renderer emits one of h1..h6 with the section's own level.
C15_LevelsInRange ==
  /\ C15_Levels(sections)
  /\ C15_Levels(mergedSections)
  /\ pc = "done" => C15_OwnTags(mergedSections)

\* a rendered result with a heading that a merge pass made and a paragraph
C15_Witness ==
  /\ pc = "done"
  /\ \E j, k \in DOMAIN mergedSections :
       /\ mergedSections[j].type = "heading"
       /\ \A i \in DOMAIN sections : sections[i] # mergedSections[j]
       /\ mergedSections[k].type = "paragraph"

\* ---- C16 ----

\* the start-up fetch is answered, a load was started and none is awaiting
C16_AllSettled ==
  /\ pc = "open"
  /\ loads # << >>
  /\ \A k \in DOMAIN loads : loads[k].state = "settled"

\* what the load that started last settled with
C16_Latest == processPDFFile(loads[Len(loads)].file)

\* C16: when loadPDFFromFile calls overlap, then after all of them have
\* settled, in every interleaving, the loading indicator is hidden, the error
\* banner is visible only if the load started last failed, and the container
\* shows the content of the load started last; no error or content of an
\* earlier load stays displayed over the result of a later one.
C16_LatestLoadShown ==
  C16_AllSettled =>
    /\ page.loadingHidden
    /\ page.errorHidden = C16_Latest.ok
    /\ page.pdfContainer = C16_Latest.value

====
